---- MODULE Spec2Model ----
(***************************************************************************)
(* Model of Dataset/database_upload.py: a straight-line script that loads  *)
(* .env, parses users.csv and orders.csv, reads five credentials from the  *)
(* environment, formats a PostgreSQL URL, creates an engine and appends    *)
(* the two frames to the tables users and orders, then prints a message.   *)
(*                                                                         *)
(* Text is modelled as a sequence of one-character strings so that         *)
(* formatting is real concatenation.  An optional value (os.getenv may     *)
(* return None) is a record [some, val].  The file system, the shell       *)
(* environment, the .env file and the database server are the script's     *)
(* surroundings: they are drawn in Init and the outcome of every library   *)
(* call that can raise is drawn when the statement runs.                   *)
(***************************************************************************)
EXTENDS Integers, Sequences, FiniteSets

\* ---------------------------------------------------------------- bounds
MaxRows == 1
MaxPrior == 1
MaxRuns == 2

\* ------------------------------------------------------------------ text
None == [some |-> FALSE, val |-> <<>>]
Some(s) == [some |-> TRUE, val |-> s]

\* str(x) as an f-string field renders it: None becomes the text "None"
Str(x) == IF x.some THEN x.val ELSE <<"N", "o", "n", "e">>

Scheme == <<"p", "o", "s", "t", "g", "r", "e", "s", "q", "l", ":", "/", "/">>

EnvNames == {"DB_USER", "DB_PASSWORD", "DB_HOST", "DB_PORT", "DB_NAME"}
FileNames == {"users.csv", "orders.csv"}

\* The f-string of line 21 as its parts: literal text and replacement fields
Lit(s) == [lit |-> TRUE, text |-> s, field |-> None]
Field(x) == [lit |-> FALSE, text |-> <<>>, field |-> x]

RECURSIVE Fstring(_)
Fstring(parts) ==
    IF parts = <<>> THEN <<>>
    ELSE (IF Head(parts).lit THEN Head(parts).text ELSE Str(Head(parts).field))
         \o Fstring(Tail(parts))

\* Same fields, percent-encoding ':', '@' and '/' in each replacement field
Quote(c) ==
    IF c = ":" THEN <<"%", "3", "A">>
    ELSE IF c = "@" THEN <<"%", "4", "0">>
    ELSE IF c = "/" THEN <<"%", "2", "F">>
    ELSE <<c>>

RECURSIVE QuoteText(_)
QuoteText(s) == IF s = <<>> THEN <<>> ELSE Quote(Head(s)) \o QuoteText(Tail(s))

DbUrlQuoted(u, p, h, pt, d) ==
    Scheme \o QuoteText(Str(u)) \o <<":">> \o QuoteText(Str(p)) \o <<"@">>
           \o QuoteText(Str(h)) \o <<":">> \o QuoteText(Str(pt)) \o <<"/">>
           \o QuoteText(Str(d))

DbUrl(u, p, h, pt, d) ==
    Fstring(<< Lit(Scheme), Field(u), Lit(<<":">>), Field(p), Lit(<<"@">>),
               Field(h), Lit(<<":">>), Field(pt), Lit(<<"/">>), Field(d) >>)

\* ------------------------------------------------------- the surroundings
Cred(u, p, h, pt, d) ==
    [DB_USER |-> u, DB_PASSWORD |-> p, DB_HOST |-> h, DB_PORT |-> pt, DB_NAME |-> d]

\* Accounts a server may hold
Accounts ==
    { Cred(<<"u">>, <<"p", ":", "w">>, <<"h">>, <<"5">>, <<"d">>),
      Cred(<<"u">>, <<"N", "o", "n", "e">>, <<"h">>, <<"5">>, <<"d">>) }

\* Credential settings an operator may export or write to .env
Configs ==
    Accounts \cup
    { Cred(<<"u", ":", "p">>, <<"w">>, <<"h">>, <<"5">>, <<"d">>),
      Cred(<<"u">>, <<"a", "@", "b">>, <<"h">>, <<"5">>, <<"x", "/", "d">>) }

\* An environment: a setting with at most one variable left out
EnvOf(c, missing) == [n \in EnvNames |-> IF n \in missing THEN None ELSE Some(c[n])]

Environments ==
    { EnvOf(c, m) : c \in Configs, m \in {{}} \cup {{n} : n \in EnvNames} }

\* .env is absent, or holds the first account's five values
DotenvFiles ==
    { [n \in EnvNames |-> None],
      EnvOf(Cred(<<"u">>, <<"p", ":", "w">>, <<"h">>, <<"5">>, <<"d">>), {}) }

\* A CSV file: missing, not parseable, or a header line and `rows` data lines
FileStates ==
    { [kind |-> "missing", rows |-> 0], [kind |-> "malformed", rows |-> 0] }
    \cup { [kind |-> "ok", rows |-> k] : k \in 0..MaxRows }

PriorRows(k) == [i \in 1..k |-> [src |-> "prior", n |-> i]]

\* ------------------------------------------------------------- statements
\* orders.csv is parsed only after the users upload
ProgramLateRead ==
    << "load_dotenv", "read_users", "getenv", "db_url", "create_engine",
       "to_sql_users", "read_orders", "to_sql_orders", "print" >>

\* the message is printed between the two uploads
ProgramEarlyPrint ==
    << "load_dotenv", "read_users", "read_orders", "getenv", "db_url",
       "create_engine", "to_sql_users", "print", "to_sql_orders" >>

\* the two uploads are swapped
ProgramOrdersFirst ==
    << "load_dotenv", "read_users", "read_orders", "getenv", "db_url",
       "create_engine", "to_sql_orders", "to_sql_users", "print" >>

\* The statements of the script in the order they are written
Program ==
    << "load_dotenv", "read_users", "read_orders", "getenv", "db_url",
       "create_engine", "to_sql_users", "to_sql_orders", "print" >>

Statements == { Program[i] : i \in 1..Len(Program) }

VARIABLES
    shell_env,      \* the environment the script is started with
    dotenv,         \* the contents of .env
    files,          \* users.csv and orders.csv on disk
    account,        \* the credentials the database server accepts
    users, orders,  \* the two tables
    environ,        \* os.environ of the running process
    users_df, orders_df,
    user, password, host, port, database,
    db_url, engine,
    stdout,         \* lines printed by this run
    pc, failedAt,   \* next statement; the statement that raised, if any
    run,            \* number of the current run
    attempts,       \* how often each statement has run in this run
    users_before, orders_before,   \* the tables when this run started
    users_init, orders_init,       \* the tables before the first run
    outcomes        \* final pc of every earlier run

vars ==
    << shell_env, dotenv, files, account, users, orders, environ, users_df,
       orders_df, user, password, host, port, database, db_url, engine, stdout,
       pc, failedAt, run, attempts, users_before, orders_before, users_init,
       orders_init, outcomes >>

world == << shell_env, dotenv, files, account, users_init, orders_init >>
creds == << user, password, host, port, database >>
tables == << users, orders >>
history == << run, users_before, orders_before, outcomes >>

\* ------------------------------------------------------------ operations
\* pd.read_csv(..., header=None): the header line is a row like the others
ReadCsvNoHeader(name) ==
    [i \in 1..(files[name].rows + 1) |->
        [index |-> i - 1, data |-> [src |-> name, n |-> i - 1]]]

\* pd.read_csv: the first line is the header, every other line one row
ReadCsv(name) ==
    [i \in 1..files[name].rows |-> [index |-> i - 1, data |-> [src |-> name, n |-> i]]]

CanRead(name) == files[name].kind = "ok"

\* load_dotenv(): a .env value is set only where the environment has none
LoadDotenv(env, file) == [n \in EnvNames |-> IF env[n].some THEN env[n] ELSE file[n]]

\* os.getenv(name): the value, or None
Getenv(name) == environ[name]

\* DataFrame.to_sql(table, engine, if_exists="replace", index=False)
ToSqlReplace(table, frame) == [i \in 1..Len(frame) |-> frame[i].data]

\* An insert that skips the rows the table already holds
ToSqlUpsert(table, frame) ==
    table \o SelectSeq([i \in 1..Len(frame) |-> frame[i].data],
                       LAMBDA r : \A j \in 1..Len(table) : table[j] # r)

\* DataFrame.to_sql(table, engine, if_exists="append", index=False)
ToSql(table, frame) == table \o [i \in 1..Len(frame) |-> frame[i].data]

\* The server lets in exactly the URL of its account
ServerAccepts(url) ==
    url = DbUrl(Some(account.DB_USER), Some(account.DB_PASSWORD),
                Some(account.DB_HOST), Some(account.DB_PORT), Some(account.DB_NAME))

Index(l) == CHOOSE i \in 1..Len(Program) : Program[i] = l

Successor(l) == IF Index(l) < Len(Program) THEN Program[Index(l) + 1] ELSE "done"

\* Running statement l once more
At(l) ==
    /\ pc = l
    /\ attempts' = [attempts EXCEPT ![l] = @ + 1]

Goto(l) == pc' = Successor(l) /\ failedAt' = failedAt

\* A failed statement is tried once more before the script gives up
RaiseRetry(l) ==
    IF attempts[l] = 0
    THEN pc' = l /\ failedAt' = failedAt
    ELSE pc' = "failed" /\ failedAt' = l

\* An exception nobody catches: the script stops at the statement that raised
Raise(l) == pc' = "failed" /\ failedAt' = l

Init ==
    /\ shell_env \in Environments
    /\ dotenv \in DotenvFiles
    /\ files \in [FileNames -> FileStates]
    /\ account \in Accounts
    /\ users \in { PriorRows(k) : k \in 0..MaxPrior }
    /\ orders \in { PriorRows(k) : k \in 0..MaxPrior }
    /\ environ = shell_env
    /\ users_df = <<>> /\ orders_df = <<>>
    /\ user = None /\ password = None /\ host = None /\ port = None
    /\ database = None
    /\ db_url = <<>> /\ engine = None
    /\ stdout = <<>>
    /\ pc = Program[1] /\ failedAt = "none"
    /\ run = 1
    /\ attempts = [l \in Statements |-> 0]
    /\ users_before = users /\ orders_before = orders
    /\ users_init = users /\ orders_init = orders
    /\ outcomes = <<>>

\* line 7
LoadDotenvStep ==
    /\ At("load_dotenv")
    /\ environ' = LoadDotenv(environ, dotenv)
    /\ Goto("load_dotenv")
    /\ UNCHANGED << world, tables, users_df, orders_df, creds, db_url, engine,
                    stdout, history >>

\* line 10
ReadUsers ==
    /\ At("read_users")
    /\ IF CanRead("users.csv")
       THEN users_df' = ReadCsv("users.csv") /\ Goto("read_users")
       ELSE users_df' = users_df /\ Raise("read_users")
    /\ UNCHANGED << world, tables, environ, orders_df, creds, db_url, engine,
                    stdout, history >>

\* line 11
ReadOrders ==
    /\ At("read_orders")
    /\ IF CanRead("orders.csv")
       THEN orders_df' = ReadCsv("orders.csv") /\ Goto("read_orders")
       ELSE orders_df' = orders_df /\ Raise("read_orders")
    /\ UNCHANGED << world, tables, environ, users_df, creds, db_url, engine,
                    stdout, history >>

\* lines 14-18
ReadCredentials ==
    /\ At("getenv")
    /\ user' = Getenv("DB_USER")
    /\ password' = Getenv("DB_PASSWORD")
    /\ host' = Getenv("DB_HOST")
    /\ port' = Getenv("DB_PORT")
    /\ database' = Getenv("DB_NAME")
    /\ Goto("getenv")
    /\ UNCHANGED << world, tables, environ, users_df, orders_df, db_url, engine,
                    stdout, history >>

\* line 21
BuildUrl ==
    /\ At("db_url")
    /\ db_url' = DbUrl(user, password, host, port, database)
    /\ Goto("db_url")
    /\ UNCHANGED << world, tables, environ, users_df, orders_df, creds, engine,
                    stdout, history >>

\* line 22: no connection is opened yet; the call raises when the URL or the
\* driver is unusable
CreateEngine ==
    /\ At("create_engine")
    /\ \E ok \in BOOLEAN :
          IF ok
          THEN engine' = Some(db_url) /\ Goto("create_engine")
          ELSE engine' = engine /\ Raise("create_engine")
    /\ UNCHANGED << world, tables, environ, users_df, orders_df, creds, db_url,
                    stdout, history >>

\* line 25: the first use of the engine connects; the insert is one
\* transaction, so it adds every row of the frame or none
InsertUsers ==
    /\ At("to_sql_users")
    /\ \E ok \in BOOLEAN :
          IF ok /\ ServerAccepts(engine.val)
          THEN users' = ToSql(users, users_df) /\ Goto("to_sql_users")
          ELSE users' = users /\ Raise("to_sql_users")
    /\ UNCHANGED << world, orders, environ, users_df, orders_df, creds, db_url,
                    engine, stdout, history >>

\* Both uploads in one transaction: a failed orders insert undoes the users one
InsertOrdersAtomic ==
    /\ At("to_sql_orders")
    /\ \E ok \in BOOLEAN :
          IF ok /\ ServerAccepts(engine.val)
          THEN /\ orders' = ToSql(orders, orders_df)
               /\ users' = users
               /\ Goto("to_sql_orders")
          ELSE /\ orders' = orders
               /\ users' = users_before
               /\ Raise("to_sql_orders")
    /\ UNCHANGED << world, environ, users_df, orders_df, creds, db_url,
                    engine, stdout, history >>

\* line 26
InsertOrders ==
    /\ At("to_sql_orders")
    /\ \E ok \in BOOLEAN :
          IF ok /\ ServerAccepts(engine.val)
          THEN orders' = ToSql(orders, orders_df) /\ Goto("to_sql_orders")
          ELSE orders' = orders /\ Raise("to_sql_orders")
    /\ UNCHANGED << world, users, environ, users_df, orders_df, creds, db_url,
                    engine, stdout, history >>

\* line 28: print raises when stdout cannot encode the message
PrintComplete ==
    /\ At("print")
    /\ \E ok \in BOOLEAN :
          IF ok
          THEN stdout' = Append(stdout, "CSV upload complete") /\ Goto("print")
          ELSE stdout' = stdout /\ Raise("print")
    /\ UNCHANGED << world, tables, environ, users_df, orders_df, creds, db_url,
                    engine, history >>

Finished == pc \in {"done", "failed"}

\* The interpreter's exit status: 0 at the end of the script, 1 after an
\* uncaught exception, -1 while the script is running
ExitStatus == IF pc = "done" THEN 0 ELSE IF pc = "failed" THEN 1 ELSE -1

\* The script is started again, as a new process, against the same files,
\* environment and database
Rerun ==
    /\ Finished
    /\ run < MaxRuns
    /\ run' = run + 1
    /\ outcomes' = Append(outcomes, pc)
    /\ users_before' = users /\ orders_before' = orders
    /\ environ' = shell_env
    /\ users_df' = <<>> /\ orders_df' = <<>>
    /\ user' = None /\ password' = None /\ host' = None /\ port' = None
    /\ database' = None
    /\ db_url' = <<>> /\ engine' = None
    /\ stdout' = <<>>
    /\ pc' = Program[1] /\ failedAt' = "none"
    /\ attempts' = [l \in Statements |-> 0]
    /\ UNCHANGED << world, tables >>

Step ==
    \/ LoadDotenvStep
    \/ ReadUsers
    \/ ReadOrders
    \/ ReadCredentials
    \/ BuildUrl
    \/ CreateEngine
    \/ InsertUsers
    \/ InsertOrders
    \/ PrintComplete

Next == Step \/ Rerun

Spec == Init /\ [][Next]_vars

\* A started script keeps executing until it exits
FairSpec == Spec /\ WF_vars(Step)

\* ---------------------------------------------------------------- claims
IsPrefix(s, t) == Len(s) <= Len(t) /\ SubSeq(t, 1, Len(s)) = s

NumRows(name) == files[name].rows

\* The data rows of a file, as they are expected to appear in its table
FileRows(name) == [i \in 1..NumRows(name) |-> [src |-> name, n |-> i]]

Ran(l) == attempts[l] >= 1

\* The statement has run in this run and did not raise
Succeeded(l) == Ran(l) /\ failedAt # l /\ pc # l

BothParse == CanRead("users.csv") /\ CanRead("orders.csv")

\* Some credential is still unset after load_dotenv()
SomeAbsent == Ran("load_dotenv") /\ \E n \in EnvNames : ~environ[n].some

AllPresent == \A n \in EnvNames : environ[n].some

AllDone == \A i \in 1..Len(outcomes) : outcomes[i] = "done"

\* C1: when a run in which both files parsed and both inserts succeeded has
\* ended, each table holds its row count from before the run plus the number
\* of data rows of its file.
C1_AppendCounts ==
    (Finished /\ BothParse /\ Succeeded("to_sql_users") /\ Succeeded("to_sql_orders"))
    => /\ Len(users) = Len(users_before) + NumRows("users.csv")
       /\ Len(orders) = Len(orders_before) + NumRows("orders.csv")

C1_Witness ==
    /\ pc = "done"
    /\ Len(users_before) >= 1 /\ NumRows("users.csv") >= 1
    /\ Len(orders_before) >= 1 /\ NumRows("orders.csv") >= 1

\* C2 as stated: after two successful runs on the same files each table holds
\* its initial row count plus twice its file's row count, and the second run
\* has changed the database.
C2_SecondRunNotNoOp ==
    (run = 2 /\ pc = "done" /\ AllDone)
    => /\ Len(users) = Len(users_init) + 2 * NumRows("users.csv")
       /\ Len(orders) = Len(orders_init) + 2 * NumRows("orders.csv")
       /\ << users, orders >> # << users_before, orders_before >>

\* C2 as amended: after k successful runs on the same files each table holds
\* its initial rows followed by k copies of its file's rows, and the last run
\* has changed a table exactly when that table's file has a data row.
C2_RowsAppendedPerRun ==
    (pc = "done" /\ AllDone)
    => /\ Len(users) = Len(users_init) + run * NumRows("users.csv")
       /\ Len(orders) = Len(orders_init) + run * NumRows("orders.csv")
       /\ users = users_before \o FileRows("users.csv")
       /\ orders = orders_before \o FileRows("orders.csv")
       /\ (users # users_before) <=> (NumRows("users.csv") >= 1)
       /\ (orders # orders_before) <=> (NumRows("orders.csv") >= 1)

C2_Witness ==
    /\ run = 2 /\ pc = "done" /\ AllDone
    /\ NumRows("users.csv") >= 1 /\ NumRows("orders.csv") >= 1
    /\ Len(users) = Len(users_init) + 2 * NumRows("users.csv")

\* C3: when one of the five variables is absent from the environment the run
\* does not succeed and neither table differs from its contents before the
\* run.
C3_AbsentVariableFails ==
    SomeAbsent
    => /\ pc # "done"
       /\ users = users_before
       /\ orders = orders_before

\* C4: when users.csv or orders.csv is missing or cannot be parsed, the run
\* never gets past the two read statements: no engine is built, no insert is
\* attempted, both tables are unchanged, and the run ends failed at a read.
C4_BadFileFailsAtLoad ==
    ~BothParse
    => /\ pc \in {"load_dotenv", "read_users", "read_orders", "failed"}
       /\ ~Ran("create_engine") /\ engine = None
       /\ ~Ran("to_sql_users") /\ ~Ran("to_sql_orders")
       /\ users = users_before /\ orders = orders_before
       /\ Finished => (pc = "failed" /\ failedAt \in {"read_users", "read_orders"})

C4_Witness ==
    /\ CanRead("users.csv") /\ NumRows("users.csv") >= 1
    /\ ~CanRead("orders.csv")
    /\ pc = "failed" /\ failedAt = "read_orders"

\* C5: when the users insert succeeded and the orders insert failed, the run
\* has ended in failure, the users table holds its prior rows followed by all
\* rows of users.csv, and the orders table is unchanged.
C5_PartialCommit ==
    failedAt = "to_sql_orders"
    => /\ pc = "failed"
       /\ Succeeded("to_sql_users")
       /\ users = users_before \o FileRows("users.csv")
       /\ orders = orders_before

C5_Witness ==
    /\ failedAt = "to_sql_orders"
    /\ NumRows("users.csv") >= 1
    /\ Len(users) > Len(users_before)

\* C6: a run prints at most one line; a line is printed only once both
\* inserts have succeeded; a failed run has printed nothing.
C6_MessageOnlyAfterBoth ==
    /\ Len(stdout) <= 1
    /\ stdout # <<>> => (Succeeded("to_sql_users") /\ Succeeded("to_sql_orders"))
    /\ pc = "failed" => stdout = <<>>

C6_Witness == pc = "done" /\ Len(stdout) = 1

\* C7: in every state each table begins with the rows it held before the
\* run, and with the rows it held before the first run, in the same order and
\* unmodified.
C7_PriorRowsKept ==
    /\ IsPrefix(users_before, users) /\ IsPrefix(orders_before, orders)
    /\ IsPrefix(users_init, users) /\ IsPrefix(orders_init, orders)

C7_Witness ==
    /\ Len(users_before) >= 1 /\ Len(users) > Len(users_before)
    /\ Len(orders_before) >= 1 /\ Len(orders) > Len(orders_before)

\* C8: once built from five present values, the connection string is the
\* scheme, user, ":", password, "@", host, ":", port, "/", database joined
\* with every value copied as it is; and two different settings exist that
\* give the same connection string.
C8_UrlVerbatim ==
    /\ (Ran("db_url") /\ pc # "db_url" /\ AllPresent)
       => db_url = Scheme \o environ["DB_USER"].val \o <<":">>
                   \o environ["DB_PASSWORD"].val \o <<"@">>
                   \o environ["DB_HOST"].val \o <<":">>
                   \o environ["DB_PORT"].val \o <<"/">>
                   \o environ["DB_NAME"].val
    /\ \E c1, c2 \in Configs :
          /\ c1 # c2
          /\ DbUrl(Some(c1.DB_USER), Some(c1.DB_PASSWORD), Some(c1.DB_HOST),
                   Some(c1.DB_PORT), Some(c1.DB_NAME))
             = DbUrl(Some(c2.DB_USER), Some(c2.DB_PASSWORD), Some(c2.DB_HOST),
                     Some(c2.DB_PORT), Some(c2.DB_NAME))

C8_Witness ==
    /\ Ran("db_url") /\ pc # "db_url" /\ AllPresent
    /\ password.val = <<"a", "@", "b">>
    /\ database.val = <<"x", "/", "d">>
    /\ \E i \in 1..(Len(db_url) - 1) : i > Len(Scheme) /\ db_url[i] = "@" /\ db_url[i + 1] = "b"

\* C9 as stated: the orders insert is attempted only after the users insert
\* has succeeded, a failed users insert leaves the orders insert unattempted
\* and the orders table unchanged, and in no state does the orders table hold
\* rows of this run while the users table holds none.
C9_OrdersRowsImplyUsersRows ==
    /\ Ran("to_sql_orders") => Succeeded("to_sql_users")
    /\ failedAt = "to_sql_users" => (~Ran("to_sql_orders") /\ orders = orders_before)
    /\ ~(Len(orders) > Len(orders_before) /\ Len(users) = Len(users_before))

\* C9 as amended: the same order of the two inserts; the orders table holds
\* rows of this run while the users table holds none only when users.csv has
\* no data rows.
C9_UsersBeforeOrders ==
    /\ Ran("to_sql_orders")
       => (Succeeded("to_sql_users") /\ users = users_before \o FileRows("users.csv"))
    /\ failedAt = "to_sql_users" => (~Ran("to_sql_orders") /\ orders = orders_before)
    /\ (Len(orders) > Len(orders_before) /\ Len(users) = Len(users_before))
       => NumRows("users.csv") = 0

C9_Witness ==
    /\ Succeeded("to_sql_orders")
    /\ Len(orders) > Len(orders_before)
    /\ Len(users) > Len(users_before)

\* The statements written after l
After(l) == { Program[i] : i \in (Index(l) + 1)..Len(Program) }

\* C10: every run ends; it ends either with every statement run once, the
\* message printed and exit status 0, or with status 1 at the first statement
\* that raised, no later statement having run; and no statement runs more
\* than once in a run.
C10_RunsOnceAndEnds ==
    /\ (~Finished) ~> Finished
    /\ [](\A l \in Statements : attempts[l] <= 1)
    /\ [](pc = "done"
          => /\ \A l \in Statements : attempts[l] = 1
             /\ failedAt = "none" /\ Len(stdout) = 1 /\ ExitStatus = 0)
    /\ [](pc = "failed"
          => /\ failedAt \in Statements /\ attempts[failedAt] = 1
             /\ \A l \in After(failedAt) : attempts[l] = 0
             /\ ExitStatus = 1)
    /\ [](~Finished => (failedAt = "none" /\ ExitStatus = -1))

C10_Witness ==
    /\ pc = "failed" /\ failedAt = "to_sql_users"
    /\ run = 2 /\ outcomes = << "failed" >>

====
